---- MODULE Spec2Model ----
(***************************************************************************)
(* Model of grafica.py: the two request handlers generate_graphs and       *)
(* download_graph, the directory ./generated_graphs they share, and the    *)
(* table pipeline (to_datetime, groupby-sum, asfreq) that generate_graphs  *)
(* runs on the uploaded rows.                                              *)
(*                                                                         *)
(* Text is modelled by what the code does with it: an upload's filename is *)
(* a sequence of characters (str.endswith), a path is a sequence of tokens *)
(* that are component names or the separator "/" (os.path.join, then the   *)
(* POSIX walk that os.path.exists performs).  Dates are whole calendar     *)
(* days, numbered.  A table has at least one row and numeric quantities.   *)
(* Whether a model fits is the library's affair: it fits or it raises.     *)
(*                                                                         *)
(* Three specifications share the handlers' actions.                       *)
(*   Spec        generate requests one after another, any number of them,  *)
(*               over uploads that fail each check or pass them all, with  *)
(*               downloads of any filename at any moment.                  *)
(*   SpecConc    two generate requests whose steps interleave, as they do  *)
(*               when the application runs in more than one worker process *)
(*               (inside one event loop the handler, which never awaits,   *)
(*               runs from its first line to its last), with downloads.    *)
(*   SpecSeries  one generate request over every table of up to MaxRows    *)
(*               rows with dates in 1..MaxDay.                             *)
(* A chart file being saved can be read torn by a download.                *)
(***************************************************************************)
EXTENDS Integers, Sequences, FiniteSets, TLC

\* ------------------------------------------------------------------ bounds
MaxRows == 3
MaxDay == 3

\* the generate requests that can be in progress together
Req == {1, 2}
Days == 1..MaxDay

\* --------------------------------------------------------- upload filename
CsvExt == <<".", "c", "s", "v">>

Filenames ==
  { <<"d", ".", "c", "s", "v">>,
    <<"d", ".", "t", "x", "t">>,
    <<"d", ".", "C", "S", "V">>,
    <<"d", "c", "s", "v">>,
    <<>> }

\* a suffix test that forgets the dot of the extension
endswith_nodot(s, suffix) ==
  /\ Len(s) >= Len(suffix) - 1
  /\ SubSeq(s, Len(s) - Len(suffix) + 2, Len(s)) = Tail(suffix)

\* str.endswith
endswith(s, suffix) ==
  /\ Len(s) >= Len(suffix)
  /\ SubSeq(s, Len(s) - Len(suffix) + 1, Len(s)) = suffix

\* ------------------------------------------------------------------- paths
SEP == "/"
PIE == "grafica_pastel.png"
LINE == "grafica_linea.png"
PRED == "grafica_predicciones.png"
ChartNames == {PIE, LINE, PRED}

GRAPH_PATH == <<".", SEP, "generated_graphs">>

\* os.path.join for two arguments
join(a, b) ==
  IF b # <<>> /\ b[1] = SEP THEN b
  ELSE IF a = <<>> \/ a[Len(a)] = SEP THEN a \o b
  ELSE a \o <<SEP>> \o b

\* What a path can denote: the directories the program is sure of (the
\* working directory, generated_graphs under it, the directories above the
\* working directory, the root), a chart file, or nothing.
Missing == [kind |-> "missing", name |-> ""]
Dir(n) == [kind |-> "dir", name |-> n]
File(n) == [kind |-> "file", name |-> n]

\* One token of the walk from node cur; present is the set of chart files
\* that exist in generated_graphs.
Step(cur, tok, present) ==
  IF cur.kind # "dir" THEN Missing
  ELSE IF tok = SEP \/ tok = "." THEN cur
  ELSE IF tok = ".." THEN
         IF cur.name = "graphs" THEN Dir("cwd")
         ELSE IF cur.name = "cwd" THEN Dir("above")
         ELSE cur
  ELSE IF cur.name = "cwd" /\ tok = "generated_graphs" THEN Dir("graphs")
  ELSE IF cur.name = "graphs" /\ tok \in present THEN File(tok)
  ELSE Missing

RECURSIVE Walk(_, _, _)
Walk(cur, p, present) ==
  IF p = <<>> THEN cur ELSE Walk(Step(cur, Head(p), present), Tail(p), present)

\* The node a path resolves to.
Resolve(p, present) ==
  IF p # <<>> /\ p[1] = SEP THEN Walk(Dir("root"), p, present)
  ELSE Walk(Dir("cwd"), p, present)

\* --------------------------------------------------------- chart contents
Absent == [chart |-> "absent"]
Torn == [chart |-> "torn"]
PieChart(t) == [chart |-> "pie", totals |-> t]
LineChart(d) == [chart |-> "line", daily |-> d]
PredChart(d) == [chart |-> "pred", daily |-> d, steps |-> 30]

\* ------------------------------------------------------------ the pipeline
REQUIRED == {"Fecha", "Tipo de Alimento", "Cantidad Consumida (gr)"}
AllColumns == REQUIRED \cup {"Notas"}

BadDate == 0 - 1
NaN == "NaN"
Categories == {"Fruta", "Carne"}
Quantities == {50, 100}

Rows == [Fecha : Days, Tipo : Categories \cup {NaN}, Cantidad : Quantities]

RECURSIVE SumQty(_, _)
SumQty(rows, S) ==
  IF S = {} THEN 0
  ELSE LET i == CHOOSE j \in S : TRUE
       IN rows[i].Cantidad + SumQty(rows, S \ {i})

\* a conversion that lets every value through
DatesCoerce(rows) == TRUE

\* pd.to_datetime raises when a value is no date
DatesParse(rows) == \A i \in DOMAIN rows : rows[i].Fecha # BadDate

\* groupby('Tipo de Alimento')[...].sum(): rows whose key is NaN are dropped
GroupBySum(rows) ==
  LET keys == {rows[i].Tipo : i \in DOMAIN rows} \ {NaN}
  IN [c \in keys |-> SumQty(rows, {i \in DOMAIN rows : rows[i].Tipo = c})]

\* asfreq raises (reindex on an axis with duplicate labels) when two rows
\* share a date
CanReindex(rows) ==
  \A i, j \in DOMAIN rows : rows[i].Fecha = rows[j].Fecha => i = j

MinDate(rows) ==
  CHOOSE d \in {rows[i].Fecha : i \in DOMAIN rows} :
    \A i \in DOMAIN rows : d <= rows[i].Fecha
MaxDate(rows) ==
  CHOOSE d \in {rows[i].Fecha : i \in DOMAIN rows} :
    \A i \in DOMAIN rows : d >= rows[i].Fecha

\* data.asfreq('D', fill_value=0)['Cantidad Consumida (gr)'] on unique dates:
\* one value per day of date_range(min, max)
AsFreq(rows) ==
  [start |-> MinDate(rows),
   values |-> [k \in 1..(MaxDate(rows) - MinDate(rows) + 1) |->
       LET d == MinDate(rows) + k - 1
           at == {i \in DOMAIN rows : rows[i].Fecha = d}
       IN IF at = {} THEN 0 ELSE SumQty(rows, at)]]

\* --------------------------------------------------------------- uploads
\* The content of an upload: bytes read_csv rejects, or a table with its
\* header and rows.
Garbage == [ok |-> FALSE, columns |-> {}, rows |-> <<>>]
Table(c, t) == [ok |-> TRUE, columns |-> c, rows |-> t]

Row(d, c, q) == [Fecha |-> d, Tipo |-> c, Cantidad |-> q]
TableA == <<Row(1, "Fruta", 100), Row(3, "Fruta", 50)>>
TableB == <<Row(2, "Carne", 50)>>
TableBad == <<Row(BadDate, "Fruta", 100)>>

\* the uploads of the one-request-at-a-time specification: content that does
\* not parse, a one-row table under every header, the two-row table of days
\* 1 and 3, and a table with a date that does not parse
SampleBodies ==
  {Garbage}
    \cup {Table(c, TableB) : c \in SUBSET AllColumns}
    \cup {Table(REQUIRED, t) : t \in {TableA, TableBad}}

\* the uploads of the overlapping requests
ConcBodies == {Table(REQUIRED, t) : t \in {TableA, TableB}}

\* every table of 1..MaxRows rows with all required columns
AllTables == UNION {[1..n -> Rows] : n \in 1..MaxRows}
AllBodies == {Table(REQUIRED, t) : t \in AllTables}

\* --------------------------------------------------------------- responses
NoDetail == [msg |-> "", columns |-> {}]
NoResp == [status |-> 0, detail |-> NoDetail, body |-> <<>>]
HTTPException(code, m, cols) ==
  [status |-> code, detail |-> [msg |-> m, columns |-> cols], body |-> <<>>]
\* an exception no handler catches: the framework answers 500
Unhandled(what) ==
  [status |-> 500, detail |-> [msg |-> what, columns |-> {}], body |-> <<>>]

pie_path == join(GRAPH_PATH, <<PIE>>)
line_path == join(GRAPH_PATH, <<LINE>>)
pred_path == join(GRAPH_PATH, <<PRED>>)

\* a response whose pie_chart field names the line chart's file
PathsMixed ==
  [pie_chart |-> line_path, line_chart |-> pie_path, prediction_chart |-> pred_path]

\* lines 81-85
Paths ==
  [pie_chart |-> pie_path, line_chart |-> line_path, prediction_chart |-> pred_path]
Ok == [status |-> 200, detail |-> NoDetail, body |-> <<Paths>>]

NoDl == [filename |-> <<>>, status |-> 0, body |-> Absent]

\* the filename parameters a client sends to download_graph
DownloadNames ==
  { <<>>, <<PIE>>, <<LINE>>, <<PRED>>, <<"nope.png">>, <<"..">>,
    <<PIE, SEP>>, <<"..", SEP, "generated_graphs", SEP, PRED>>,
    pie_path, line_path, pred_path }
ChartFiles == {<<f>> : f \in ChartNames}

NoFigures == [f \in ChartNames |-> Absent]
NoWrite == [by |-> 0, figure |-> Absent]

\* ------------------------------------------------------------------- state
VARIABLES
  pc,        \* per request: the statement of generate_graphs it is at
  filename,  \* per request: file.filename
  data,      \* per request: the DataFrame, <<>> before read_csv returns
  totals,    \* per request: tipo_alimento_totales, <<>> before line 40
  daily,     \* per request: daily_consumption, <<>> before line 50
  resp,      \* per request: the response, NoResp until the request ends
  disk,      \* content of each chart file of ./generated_graphs
  dl,        \* the response of the download request being served, or NoDl
  before,    \* history, per request: disk as it was when the request came
  wrote,     \* history, per request: the chart files it has written
  written,   \* history, per chart file: who saved it last, and what figure
  lastDone,  \* history: the generate request that ended last, 0 if none
  lastOk     \* history: the figures the last successful generation saved

vars ==
  <<pc, filename, data, totals, daily, resp, disk, dl,
    before, wrote, written, lastDone, lastOk>>

Init ==
  /\ pc = [r \in Req |-> "idle"]
  /\ filename = [r \in Req |-> <<>>]
  /\ data = [r \in Req |-> <<>>]
  /\ totals = [r \in Req |-> <<>>]
  /\ daily = [r \in Req |-> <<>>]
  /\ resp = [r \in Req |-> NoResp]
  /\ disk = NoFigures
  /\ dl = NoDl
  /\ before = [r \in Req |-> NoFigures]
  /\ wrote = [r \in Req |-> {}]
  /\ written = [f \in ChartNames |-> NoWrite]
  /\ lastDone = 0
  /\ lastOk = NoFigures

\* the chart file that opening path for writing creates or truncates
Target(path) == Resolve(path, ChartNames).name

\* a save that leaves an existing file as it is
savefig_keep(d, path, figure) ==
  IF d[Target(path)] = Absent THEN [d EXCEPT ![Target(path)] = figure] ELSE d

\* plt.savefig(path): the file the path names gets the figure
savefig(d, path, figure) == [d EXCEPT ![Target(path)] = figure]

\* request r saves figure at path
Save(r, path, figure) ==
  /\ disk' = savefig(disk, path, figure)
  /\ wrote' = [wrote EXCEPT ![r] = @ \cup {Target(path)}]
  /\ written' = [written EXCEPT ![Target(path)] = [by |-> r, figure |-> figure]]

\* the request ends with response x
Finish(r, x) ==
  /\ pc' = [pc EXCEPT ![r] = "done"]
  /\ resp' = [resp EXCEPT ![r] = x]
  /\ lastDone' = r

Goto(r, l) ==
  /\ pc' = [pc EXCEPT ![r] = l]
  /\ UNCHANGED <<resp, lastDone>>

\* a request with filename fn reaches the handler
Receive(r, fn) ==
  /\ pc' = [pc EXCEPT ![r] = "ext"]
  /\ filename' = [filename EXCEPT ![r] = fn]
  /\ data' = [data EXCEPT ![r] = <<>>]
  /\ totals' = [totals EXCEPT ![r] = <<>>]
  /\ daily' = [daily EXCEPT ![r] = <<>>]
  /\ resp' = [resp EXCEPT ![r] = NoResp]
  /\ before' = [before EXCEPT ![r] = disk]
  /\ wrote' = [wrote EXCEPT ![r] = {}]
  /\ UNCHANGED <<disk, dl, written, lastDone, lastOk>>

\* a client posts an upload; a client that has its answer may post again
Arrive(r) ==
  /\ pc[r] \in {"idle", "done"}
  /\ \E fn \in Filenames : Receive(r, fn)

\* a client posts its one upload
ArriveOnce(r) ==
  /\ pc[r] = "idle"
  /\ \E fn \in Filenames : Receive(r, fn)

\* lines 21-22
CheckExtension(r) ==
  /\ pc[r] = "ext"
  /\ IF ~endswith(filename[r], CsvExt)
       THEN Finish(r, HTTPException(400, "El archivo debe ser un CSV.", {}))
       ELSE Goto(r, "read")
  /\ UNCHANGED <<filename, data, totals, daily, disk, dl, before, wrote, written, lastOk>>

\* lines 25-28, the upload's content drawn from Bodies
ReadCsv(r, Bodies) ==
  /\ pc[r] = "read"
  /\ \E b \in Bodies :
       IF ~b.ok
         THEN /\ Finish(r, HTTPException(400, "Error al leer el archivo", {}))
              /\ UNCHANGED data
         ELSE /\ Goto(r, "cols")
              /\ data' = [data EXCEPT ![r] = <<[columns |-> b.columns, rows |-> b.rows]>>]
  /\ UNCHANGED <<filename, totals, daily, disk, dl, before, wrote, written, lastOk>>

\* a message that lists the columns the upload lacks
MissingColumnsDetail(columns) ==
  HTTPException(400, "El archivo debe contener las columnas", REQUIRED \ columns)

\* line 33: the message lists required_columns
ColumnsDetail(columns) ==
  HTTPException(400, "El archivo debe contener las columnas", REQUIRED)

\* lines 31-33
CheckColumns(r) ==
  /\ pc[r] = "cols"
  /\ IF ~(REQUIRED \subseteq data[r][1].columns)
       THEN Finish(r, ColumnsDetail(data[r][1].columns))
       ELSE Goto(r, "dates")
  /\ UNCHANGED <<filename, data, totals, daily, disk, dl, before, wrote, written, lastOk>>

\* lines 36-37
ParseDates(r) ==
  /\ pc[r] = "dates"
  /\ IF ~DatesParse(data[r][1].rows)
       THEN Finish(r, Unhandled("to_datetime"))
       ELSE Goto(r, "pie")
  /\ UNCHANGED <<filename, data, totals, daily, disk, dl, before, wrote, written, lastOk>>

\* lines 40-46
SavePie(r) ==
  /\ pc[r] = "pie"
  /\ totals' = [totals EXCEPT ![r] = <<GroupBySum(data[r][1].rows)>>]
  /\ Save(r, pie_path, PieChart(totals'[r][1]))
  /\ Goto(r, "asfreq")
  /\ UNCHANGED <<filename, data, daily, dl, before, lastOk>>

\* lines 49-50
Reindex(r) ==
  /\ pc[r] = "asfreq"
  /\ IF ~CanReindex(data[r][1].rows)
       THEN /\ Finish(r, Unhandled("asfreq"))
            /\ UNCHANGED daily
       ELSE /\ Goto(r, "line")
            /\ daily' = [daily EXCEPT ![r] = <<AsFreq(data[r][1].rows)>>]
  /\ UNCHANGED <<filename, data, totals, disk, dl, before, wrote, written, lastOk>>

\* lines 51-57
SaveLine(r) ==
  /\ pc[r] = "line"
  /\ Save(r, line_path, LineChart(daily[r][1]))
  /\ Goto(r, "sarima")
  /\ UNCHANGED <<filename, data, totals, daily, dl, before, lastOk>>

\* lines 61-63: the fit and the forecast succeed or raise
FitSarima(r) ==
  /\ pc[r] = "sarima"
  /\ \E fits \in BOOLEAN :
       IF ~fits THEN Finish(r, Unhandled("SARIMAX")) ELSE Goto(r, "holt")
  /\ UNCHANGED <<filename, data, totals, daily, disk, dl, before, wrote, written, lastOk>>

\* a fit whose failure removes the charts the request has saved
FitHoltCleanup(r) ==
  /\ pc[r] = "holt"
  /\ \E fits \in BOOLEAN :
       IF ~fits
         THEN /\ Finish(r, Unhandled("ExponentialSmoothing"))
              /\ disk' = [f \in ChartNames |-> IF f \in wrote[r] THEN Absent ELSE disk[f]]
         ELSE /\ Goto(r, "pred")
              /\ UNCHANGED disk
  /\ UNCHANGED <<filename, data, totals, daily, dl, before, wrote, written, lastOk>>

\* lines 66-67
FitHolt(r) ==
  /\ pc[r] = "holt"
  /\ \E fits \in BOOLEAN :
       IF ~fits THEN Finish(r, Unhandled("ExponentialSmoothing")) ELSE Goto(r, "pred")
  /\ UNCHANGED <<filename, data, totals, daily, disk, dl, before, wrote, written, lastOk>>

\* lines 70-78
SavePred(r) ==
  /\ pc[r] = "pred"
  /\ Save(r, pred_path, PredChart(daily[r][1]))
  /\ Goto(r, "return")
  /\ UNCHANGED <<filename, data, totals, daily, dl, before, lastOk>>

\* the figure request r draws for chart file f
FigureOf(r, f) ==
  IF f = PIE THEN PieChart(totals[r][1])
  ELSE IF f = LINE THEN LineChart(daily[r][1])
  ELSE PredChart(daily[r][1])

\* lines 81-85
Return(r) ==
  /\ pc[r] = "return"
  /\ Finish(r, Ok)
  /\ lastOk' = [f \in ChartNames |-> FigureOf(r, f)]
  /\ UNCHANGED <<filename, data, totals, daily, disk, dl, before, wrote, written>>

\* request r is between opening and closing the file of chart f
InSavefig(r, f) ==
  \/ pc[r] = "pie" /\ f = PIE
  \/ pc[r] = "line" /\ f = LINE
  \/ pc[r] = "pred" /\ f = PRED

Writing(f) == \E r \in Req : InSavefig(r, f)

\* What a reader can find in generated_graphs: each file as it is on disk,
\* or torn while a request is writing it.
Views ==
  {v \in [ChartNames -> {Torn} \cup {disk[f] : f \in ChartNames}] :
     \A f \in ChartNames : v[f] = disk[f] \/ (v[f] = Torn /\ Writing(f))}

\* a download that looks the filename up without joining it to GRAPH_PATH
ServedBare(fn, view) ==
  LET node == Resolve(fn, {f \in ChartNames : view[f] # Absent})
  IN IF node.kind = "missing" THEN [filename |-> fn, status |-> 404, body |-> Absent]
     ELSE IF node.kind = "dir" THEN [filename |-> fn, status |-> 500, body |-> Absent]
     ELSE [filename |-> fn, status |-> 200, body |-> view[node.name]]

\* lines 90-93 and the delivery of the FileResponse
Served(fn, view) ==
  LET filepath == join(GRAPH_PATH, fn)
      node == Resolve(filepath, {f \in ChartNames : view[f] # Absent})
  IN IF node.kind = "missing" THEN [filename |-> fn, status |-> 404, body |-> Absent]
     ELSE IF node.kind = "dir" THEN [filename |-> fn, status |-> 500, body |-> Absent]
     ELSE [filename |-> fn, status |-> 200, body |-> view[node.name]]

download_graph(Names) ==
  /\ dl = NoDl
  /\ \E fn \in Names : \E view \in Views : dl' = Served(fn, view)
  /\ UNCHANGED <<pc, filename, data, totals, daily, resp, disk,
                 before, wrote, written, lastDone, lastOk>>

\* the client has read the download's response
DownloadDone ==
  /\ dl # NoDl
  /\ dl' = NoDl
  /\ UNCHANGED <<pc, filename, data, totals, daily, resp, disk,
                 before, wrote, written, lastDone, lastOk>>

generate_graphs(r, Bodies) ==
  \/ CheckExtension(r)
  \/ ReadCsv(r, Bodies)
  \/ CheckColumns(r)
  \/ ParseDates(r)
  \/ SavePie(r)
  \/ Reindex(r)
  \/ SaveLine(r)
  \/ FitSarima(r)
  \/ FitHolt(r)
  \/ SavePred(r)
  \/ Return(r)

\* One generate request at a time, any number of them, and downloads.
Next ==
  \/ Arrive(1)
  \/ generate_graphs(1, SampleBodies)
  \/ download_graph(DownloadNames)
  \/ DownloadDone

Spec == Init /\ [][Next]_vars

\* Two generate requests that may overlap, and downloads of the charts.
NextConc ==
  \/ \E r \in Req : ArriveOnce(r)
  \/ \E r \in Req : generate_graphs(r, ConcBodies)
  \/ download_graph(ChartFiles)
  \/ DownloadDone

SpecConc == Init /\ [][NextConc]_vars

\* One request over every table of the bounds.
NextSeries ==
  \/ ArriveOnce(1)
  \/ generate_graphs(1, AllBodies)

SpecSeries == Init /\ [][NextSeries]_vars

\* ------------------------------------------------------------------ claims
\* the step in which download_graph answers
DownloadStep == dl = NoDl /\ dl' # NoDl

\* no generate request is in progress
Quiet == \A r \in Req : pc[r] \in {"idle", "done"}

\* fn does not end in the four characters ".csv"
NotCsv(fn) ==
  ~(/\ Len(fn) >= 4
    /\ fn[Len(fn) - 3] = "."
    /\ fn[Len(fn) - 2] = "c"
    /\ fn[Len(fn) - 1] = "s"
    /\ fn[Len(fn)] = "v")

Parsed(r) == Len(data[r]) = 1
LacksColumn(r) ==
  /\ pc[r] = "done"
  /\ Parsed(r)
  /\ ~(REQUIRED \subseteq data[r][1].columns)

\* C1 as claimed: an upload that parses and lacks a required column is
\* answered 400 with a message that names the columns it lacks.
C1_NamesMissing ==
  \A r \in Req :
    LacksColumn(r) =>
      /\ resp[r].status = 400
      /\ resp[r].detail.columns = REQUIRED \ data[r][1].columns

\* C1 as amended: an upload that parses and lacks a required column is
\* answered 400 with a message that names all three required columns,
\* whichever of them the upload lacks.
C1_NamesRequired ==
  \A r \in Req :
    LacksColumn(r) =>
      /\ resp[r].status = 400
      /\ resp[r].detail.msg = "El archivo debe contener las columnas"
      /\ resp[r].detail.columns = REQUIRED
      /\ resp[r].body = <<>>

C1_Witness ==
  \E r \in Req :
    /\ LacksColumn(r)
    /\ data[r][1].columns \cap REQUIRED = {"Fecha", "Tipo de Alimento"}
    /\ resp[r].status = 400

\* C2: a request whose filename does not end in .csv is answered 400 by the
\* extension check, the first step: it never reaches read_csv, builds no
\* table, totals or series, and writes no chart file.
C2_ExtensionFirst ==
  \A r \in Req :
    (pc[r] # "idle" /\ NotCsv(filename[r])) =>
      /\ pc[r] \in {"ext", "done"}
      /\ data[r] = <<>> /\ totals[r] = <<>> /\ daily[r] = <<>>
      /\ wrote[r] = {}
      /\ disk = before[r]
      /\ pc[r] = "done" =>
           resp[r] = HTTPException(400, "El archivo debe ser un CSV.", {})

C2_Witness ==
  \E r \in Req :
    /\ pc[r] = "done"
    /\ filename[r] = <<"d", "c", "s", "v">>
    /\ resp[r].status = 400
    /\ disk[PRED] # Absent

\* C3 as claimed: with no generate request in progress, a download whose
\* filename is not the name of a chart file written so far is answered 404.
C3_NeverWritten404 ==
  [][(DownloadStep /\ Quiet
        /\ dl'.filename \notin {<<f>> : f \in {g \in ChartNames : disk[g] # Absent}})
      => dl'.status = 404]_vars

\* C4 as claimed: with no generate request in progress, a download of a
\* chart filename after a successful generation returns what that
\* generation wrote to the file.
C4_ReturnsLastSuccess ==
  [][(DownloadStep /\ Quiet /\ dl'.filename \in ChartFiles /\ lastOk # NoFigures)
      => (dl'.status = 200 /\ dl'.body = lastOk[dl'.filename[1]])]_vars

\* C4 as amended: with no generate request in progress, a download of a
\* chart filename that some generate request has saved returns exactly the
\* figure of the most recent save to that file, whether or not the request
\* that saved it went on to succeed.
C4_ReturnsLastWrite ==
  [][(DownloadStep /\ Quiet /\ dl'.filename \in ChartFiles
        /\ written[dl'.filename[1]].by # 0)
      => (dl'.status = 200 /\ dl'.body = written[dl'.filename[1]].figure)]_vars

C4_Witness ==
  /\ Quiet
  /\ lastOk # NoFigures
  /\ dl.filename = <<PIE>> /\ dl.status = 200
  /\ dl.body = written[PIE].figure
  /\ dl.body # lastOk[PIE]

\* the request has passed validation and line 50, or has ended after it
\* passed validation
PastReindex(r) ==
  /\ pc[r] \in {"line", "sarima", "holt", "pred", "return", "done"}
  /\ Parsed(r)
  /\ REQUIRED \subseteq data[r][1].columns
  /\ \A i \in DOMAIN data[r][1].rows : data[r][1].rows[i].Fecha # BadDate

\* the quantity consumed on day d
QtyOn(rows, d) ==
  LET at == {i \in DOMAIN rows : rows[i].Fecha = d}
  IN IF at = {} THEN 0 ELSE SumQty(rows, at)

\* C5 as claimed: for every validated upload, rows in any order and several
\* rows on one date included, the daily series has one entry for each day
\* from the first to the last date, the quantity of the day or zero.
C5_DailySeries ==
  \A r \in Req :
    PastReindex(r) =>
      LET rows == data[r][1].rows
          lo == CHOOSE d \in Days : /\ \E i \in DOMAIN rows : rows[i].Fecha = d
                                    /\ \A i \in DOMAIN rows : rows[i].Fecha >= d
          hi == CHOOSE d \in Days : /\ \E i \in DOMAIN rows : rows[i].Fecha = d
                                    /\ \A i \in DOMAIN rows : rows[i].Fecha <= d
      IN /\ Len(daily[r]) = 1
         /\ daily[r][1].start = lo
         /\ Len(daily[r][1].values) = hi - lo + 1
         /\ \A k \in 1..(hi - lo + 1) : daily[r][1].values[k] = QtyOn(rows, lo + k - 1)

RECURSIVE SumSeq(_)
SumSeq(s) == IF s = <<>> THEN 0 ELSE Head(s) + SumSeq(Tail(s))

RECURSIVE SumFun(_, _)
SumFun(f, S) ==
  IF S = {} THEN 0
  ELSE LET c == CHOOSE x \in S : TRUE IN f[c] + SumFun(f, S \ {c})

\* C6 as claimed: once both are computed, the category totals and the daily
\* series have the same sum (stated for the uploads that name a food type
\* in at least one row, so that the pie chart has a wedge).
C6_Conservation ==
  \A r \in Req :
    (Len(totals[r]) = 1 /\ Len(daily[r]) = 1 /\ DOMAIN totals[r][1] # {}) =>
      SumFun(totals[r][1], DOMAIN totals[r][1]) = SumSeq(daily[r][1].values)

\* C7: no request waits for another at a save, and every chart file holds
\* the figure of the request that saved it last.
C7_LastWriterWins ==
  /\ \A r \in Req : pc[r] = "pie" => ENABLED SavePie(r)
  /\ \A r \in Req : pc[r] = "line" => ENABLED SaveLine(r)
  /\ \A r \in Req : pc[r] = "pred" => ENABLED SavePred(r)
  /\ \A f \in ChartNames :
       written[f].by # 0 =>
         /\ f \in wrote[written[f].by]
         /\ disk[f] = FigureOf(written[f].by, f)

\* two overlapping requests have both succeeded, the files come from
\* different requests, and a download has returned a chart that is not the
\* chart of the request that ended last
C7_Witness ==
  /\ \A r \in Req : pc[r] = "done" /\ resp[r].status = 200
  /\ written[PIE].by # written[PRED].by
  /\ \E f \in ChartNames :
       /\ written[f].by # lastDone
       /\ dl.filename = <<f>> /\ dl.status = 200
       /\ dl.body = disk[f]
       /\ dl.body # FigureOf(lastDone, f)

FitFailed(r) ==
  /\ pc[r] = "done"
  /\ wrote[r] = {PIE, LINE}
  /\ Len(daily[r]) = 1

\* C8: a request that ended after it saved the pie and line charts and
\* before it saved the prediction chart, which is a request whose fit or
\* forecast failed, is answered 500 with no paths; the pie and line files
\* hold its charts and the prediction file is as it was when it came.
C8_FitFailure ==
  \A r \in Req :
    FitFailed(r) =>
      /\ resp[r].status = 500
      /\ resp[r].detail.msg \in {"SARIMAX", "ExponentialSmoothing"}
      /\ resp[r].body = <<>>
      /\ disk[PIE] = PieChart(totals[r][1])
      /\ disk[LINE] = LineChart(daily[r][1])
      /\ disk[PRED] = before[r][PRED]

C8_Witness ==
  \E r \in Req :
    /\ FitFailed(r)
    /\ resp[r].detail.msg = "ExponentialSmoothing"
    /\ before[r][PRED] # Absent
    /\ disk[PIE] # before[r][PIE]
    /\ disk[PRED] = before[r][PRED]

\* the request has ended and its upload fails an input check
RejectedInput(r) ==
  /\ pc[r] = "done"
  /\ \/ NotCsv(filename[r])
     \/ ~Parsed(r)
     \/ ~(REQUIRED \subseteq data[r][1].columns)
     \/ \E i \in DOMAIN data[r][1].rows : data[r][1].rows[i].Fecha = BadDate

\* C9: a request rejected for its extension, its content, a missing column
\* or a date that does not parse leaves every chart file as it was.
C9_RejectedWritesNothing ==
  \A r \in Req :
    RejectedInput(r) =>
      /\ resp[r].status \in {400, 500}
      /\ resp[r].body = <<>>
      /\ wrote[r] = {}
      /\ disk = before[r]

C9_Witness ==
  \E r \in Req :
    /\ RejectedInput(r)
    /\ Parsed(r)
    /\ \E i \in DOMAIN data[r][1].rows : data[r][1].rows[i].Fecha = BadDate
    /\ disk[PIE] # Absent
    /\ disk = before[r]

\* os.path.basename: the component after the last separator
basename(p) == IF p = <<>> \/ p[Len(p)] = SEP THEN "" ELSE p[Len(p)]

FieldFile == [pie_chart |-> PIE, line_chart |-> LINE, prediction_chart |-> PRED]
Succeeded(r) == pc[r] = "done" /\ resp[r].status = 200

\* C10 as claimed: after a successful generate request and before any other,
\* a download whose filename is one of the three returned path strings
\* returns the chart that the generation wrote.
C10_RoundTrip ==
  [][\A r \in Req : \A k \in DOMAIN FieldFile :
       (DownloadStep /\ Quiet /\ Succeeded(r) /\ dl'.filename = resp[r].body[1][k])
         => (dl'.status = 200 /\ dl'.body = FigureOf(r, FieldFile[k]))]_vars

\* C10 as amended: after a successful generate request and before any
\* other, a download whose filename is the last component of one of the
\* three returned path strings returns the chart that the generation wrote.
C10_RoundTripBasename ==
  [][\A r \in Req : \A k \in DOMAIN FieldFile :
       (DownloadStep /\ Quiet /\ Succeeded(r)
          /\ dl'.filename = <<basename(resp[r].body[1][k])>>)
         => (dl'.status = 200 /\ dl'.body = FigureOf(r, FieldFile[k]))]_vars

C10_Witness ==
  \E r \in Req :
    /\ Succeeded(r)
    /\ dl.filename = <<basename(resp[r].body[1].prediction_chart)>>
    /\ dl.status = 200
    /\ dl.body = FigureOf(r, PRED)

====
